---- MODULE Spec2Model ----
(***************************************************************************)
(* A model of quops: the bit stream (src/src/bit.rs), the field model      *)
(* (crates/quops_derive/src/field.rs) and the routines the derive macros   *)
(* generate (crates/quops_derive/src/encode.rs, decode.rs).                *)
(*                                                                         *)
(* Machine words are modelled as the set of the positions of their set     *)
(* bits: a u64 is a subset of 0..63, a u128 a subset of 0..127.  OR is     *)
(* union, AND is intersection, a shift moves the positions and drops the   *)
(* ones that leave the word.  Bytes are integers 0..255.                   *)
(***************************************************************************)
EXTENDS Integers, Sequences, FiniteSets, TLC

VARIABLES
    overflow_checks, \* the build profile: TRUE = arithmetic overflow panics
    pc,              \* position of the driver of the specification at hand
    writer,          \* BitWriter {bytes, buffer, buffer_filled, bytes_written}
    out,             \* the Vec<u8> returned by into_bytes (and its overrun)
    reader,          \* BitReader {bytes, bits, bit_position, buffer, filled, byte_idx}
    last,            \* the last call made: arguments, result, state before
    before,          \* the writer or reader as it was when the last call was made
    log,             \* history: the <<value, count>> of every successful write
    bitlog,          \* history: every written bit, one at a time, in write order
    schema_json,     \* the schema document and the user's types (a FieldSpec list)
    record_fields,   \* RecordSchema.fields the loader built from it
    host_value,      \* the host value handed to encode
    encoded,         \* what Encode::encode returned
    wire,            \* the bytes handed to decode
    decoded,         \* what Decode::decode returned
    struct_names,    \* the field names the user's struct declares
    schema_names,    \* the field names of the schema
    accessed,        \* the struct fields the generated code accesses
    files,           \* the schema files on disk: type and dependencies of each
    stack,           \* the active calls of Schema::parse_from_file, outermost first
    returned         \* what the outermost parse_from_file call returned

streamvars == <<writer, out, reader, last, before, log, bitlog>>
codecvars == <<schema_json, record_fields, host_value, encoded, wire, decoded>>
namevars == <<struct_names, schema_names, accessed>>
loadvars == <<files, stack, returned>>
vars == <<overflow_checks, pc, streamvars, codecvars, namevars, loadvars>>

-----------------------------------------------------------------------------
(* Words *)

Low(n) == 0..(n - 1)

Shl(S, k, w) == {i + k : i \in S} \cap (0..(w - 1))

Shr(S, k) == {i - k : i \in {j \in S : j >= k}}

ByteAt(S, j) ==
    LET b(i) == IF (8 * j + i) \in S THEN 2 ^ i ELSE 0
    IN  b(0) + b(1) + b(2) + b(3) + b(4) + b(5) + b(6) + b(7)

BitsOfByte(b) == {i \in 0..7 : (b \div (2 ^ i)) % 2 = 1}

\* _mm_storeu_si64: the low 64 bits, little-endian, as 8 bytes
StoreLE_BigEndian(S) == [j \in 1..8 |-> ByteAt(S, 8 - j)]
StoreLE(S) == [j \in 1..8 |-> ByteAt(S, j - 1)]

\* _mm_loadu_si64 at bytes[idx..idx+8]; a byte outside the slice is whatever
\* the memory after it holds (garbage).
LoadLE(bytes, idx, garbage) ==
    UNION {
        {8 * j + i : i \in BitsOfByte(IF idx + j + 1 <= Len(bytes)
                                      THEN bytes[idx + j + 1] ELSE garbage)}
        : j \in 0..7 }

-----------------------------------------------------------------------------
(* BitWriter *)

with_capacity(capacity) ==
    [bytes |-> <<>>, buffer |-> {}, buffer_filled |-> 0, bytes_written |-> 0,
     capacity |-> capacity]

\* Vec::reserve_exact: room for `additional` more bytes after len
reserve_exact(w, additional) ==
    IF w.capacity - Len(w.bytes) >= additional THEN w.capacity
    ELSE Len(w.bytes) + additional

ValueTooLarge_CountOnly(value, count) == count > 64
ValueTooLarge(value, count) ==
    count > 64 \/ (count < 64 /\ \E i \in value : i >= count)

SplitLow(w, value, available_space) ==
    IF available_space > 0
    THEN w.buffer \cup Shl(value \cap Low(available_space), w.buffer_filled, 64)
    ELSE w.buffer

write(w, value, count, oc) ==
    IF ValueTooLarge(value, count)
    THEN [res |-> "ValueTooLarge", w |-> w]
    ELSE IF w.buffer_filled + count > 64
    THEN LET available_space == 64 - w.buffer_filled
             staged == SplitLow(w, value, available_space)
         IN  [res |-> "Ok",
              w |-> [bytes |-> SubSeq(w.bytes, 1, w.bytes_written) \o StoreLE(staged),
                     buffer |-> Shr(value, available_space),
                     buffer_filled |-> count - available_space,
                     bytes_written |-> w.bytes_written + 8,
                     capacity |-> reserve_exact(w, 8)]]
    ELSE IF w.buffer_filled >= 64 /\ oc
    THEN \* value << 64: attempt to shift left with overflow
         [res |-> "Panic", w |-> w]
    ELSE [res |-> "Ok",
          w |-> [w EXCEPT !.buffer = @ \cup Shl(value, w.buffer_filled % 64, 64),
                          !.buffer_filled = @ + count]]

additional_bytes_Floor(w) == w.buffer_filled \div 8
additional_bytes(w) == (w.buffer_filled + 7) \div 8

\* The Vec returned, and how many of the 8 stored bytes lie past its capacity.
into_bytes(w) ==
    LET capacity == reserve_exact(w, additional_bytes(w))
    IN  [bytes |-> SubSeq(w.bytes, 1, w.bytes_written)
                   \o SubSeq(StoreLE(w.buffer), 1, additional_bytes(w)),
         overrun |-> IF w.bytes_written + 8 > capacity
                     THEN w.bytes_written + 8 - capacity ELSE 0]

-----------------------------------------------------------------------------
(* BitReader *)

new(bytes) ==
    [bytes |-> bytes, bits |-> Len(bytes) * 8, bit_position |-> 0,
     buffer |-> {}, filled |-> 0, byte_idx |-> 0]

\* (((1u64 << (count - 1)) - 1) << 1) + 1, with the wrapping of a build
\* without overflow checks: count - 1 in u8, the shift amount modulo 64
mask_Short(count) == Low(((count + 255) % 256) % 64)
mask(count) == Low((((count + 255) % 256) % 64) + 1)

refill(r, garbage) ==
    [r EXCEPT !.buffer = @ \cup Shl(LoadLE(r.bytes, r.byte_idx, garbage), r.filled % 128, 128),
              !.filled = (@ + 64) % 256,
              !.byte_idx = @ + 8]

read(r, count, garbage, oc) ==
    LET available_bits == r.bits - r.bit_position IN
    IF count > available_bits
    THEN [res |-> "NotEnoughBits", value |-> {}, r |-> r]
    ELSE IF oc /\ (count = 0 \/ count > 64)
    THEN \* count - 1 underflows, or 1u64 << (count - 1) overflows
         [res |-> "Panic", value |-> {}, r |-> r]
    ELSE LET r1 == IF r.filled < count THEN refill(r, garbage) ELSE r
         IN  [res |-> "Ok",
              value |-> r1.buffer \cap mask(count) \cap (0..63),
              r |-> [r1 EXCEPT !.buffer = Shr(@, count % 128),
                               !.filled = (@ + 256 - count) % 256,
                               !.bit_position = @ + count]]

-----------------------------------------------------------------------------
(* Integers of the host.  i32 values are TLA+ integers and their arithmetic  *)
(* wraps as in a build without overflow checks; wider values are words.      *)
(* Option<T> is <<>> (None) or <<x>> (Some(x)).                              *)

MaxI32 == 2147483647
MinI32 == -2147483647 - 1

RECURSIVE BitLen(_)
BitLen(n) == IF n <= 0 THEN 0 ELSE 1 + BitLen(n \div 2)

\* i32::leading_zeros
leading_zeros_i32(n) == IF n < 0 THEN 0 ELSE 32 - BitLen(n)

\* u32::leading_zeros of a u32 given as a word
leading_zeros_u32(S) ==
    IF S \cap (0..31) = {} THEN 32
    ELSE 31 - (CHOOSE i \in S \cap (0..31) : \A j \in S \cap (0..31) : j <= i)

SubOverflows(a, b) ==
    \/ (a >= 0 /\ b < 0 /\ a > MaxI32 + b)
    \/ (a < 0 /\ b > 0 /\ a < MinI32 + b)

wrapping_sub(a, b) ==
    IF a >= 0 /\ b < 0 /\ a > MaxI32 + b THEN (a + MinI32) - (b - MinI32)
    ELSE IF a < 0 /\ b > 0 /\ a < MinI32 + b THEN (a - MinI32) - (b + MinI32)
    ELSE a - b

AddOverflows(a, b) ==
    \/ (a > 0 /\ b > 0 /\ a > MaxI32 - b)
    \/ (a < 0 /\ b < 0 /\ a < MinI32 - b)

wrapping_add(a, b) ==
    IF a > 0 /\ b > 0 /\ a > MaxI32 - b THEN (a + MinI32) + (b + MinI32)
    ELSE IF a < 0 /\ b < 0 /\ a < MinI32 - b THEN (a - MinI32) + (b - MinI32)
    ELSE a + b

\* the word of a natural number below 2^31
BitsOfNat(n) == {i \in 0..30 : (n \div (2 ^ i)) % 2 = 1}

RECURSIVE NatOfBits(_)
NatOfBits(S) ==
    IF S = {} THEN 0
    ELSE LET i == CHOOSE j \in S : TRUE IN 2 ^ i + NatOfBits(S \ {i})

\* `x as u64` of an i32: sign extension
u64_of_i32(n) == IF n >= 0 THEN BitsOfNat(n) ELSE (0..63) \ BitsOfNat(-(n + 1))

\* `x as i32` of a word: the low 32 bits, two's complement
i32_of_word(S) == NatOfBits(S \cap (0..30)) + (IF 31 \in S THEN MinI32 ELSE 0)

-----------------------------------------------------------------------------
(* The field model (field.rs).  A field is a record with the header kind,    *)
(* bits, nullable and the attributes of its kind; `host` is the type the     *)
(* user's struct declares for the field.                                     *)

B2N(b) == IF b THEN 1 ELSE 0

\* IntField::new: <<>> when the range is rejected or the width computation
\* panics (overflow checks), else <<field>>
IntField_bits(min, max) ==
    IF min # <<>> /\ max # <<>>
    THEN 32 - leading_zeros_i32(wrapping_add(wrapping_sub(max[1], min[1]), 1))
    ELSE 5

IntField_new(min, max, nullable, host, oc) ==
    IF min # <<>> /\ max # <<>> /\ min[1] > max[1] THEN <<>>
    ELSE IF /\ min # <<>> /\ max # <<>> /\ oc
            /\ \/ SubOverflows(max[1], min[1])
               \/ AddOverflows(wrapping_sub(max[1], min[1]), 1)
    THEN <<>>
    ELSE << [kind |-> "Int", bits |-> IntField_bits(min, max) + B2N(nullable),
             nullable |-> nullable, min |-> min, max |-> max, host |-> host] >>

BooleanField_new(nullable) ==
    [kind |-> "Boolean", bits |-> 1 + B2N(nullable), nullable |-> nullable]

\* max_length: Option<u32>, the u32 a word
BytesField_new(max_length, nullable) ==
    [kind |-> "Bytes",
     bits |-> (IF max_length # <<>> THEN 32 - leading_zeros_u32(max_length[1]) ELSE 5)
              + B2N(nullable),
     nullable |-> nullable, max_length |-> max_length]

\* variants: u8.  `host` is the order in which the user's enum declares the
\* variants, `schema` the order of the schema.
EnumField_new(variants, nullable, schema, host) ==
    [kind |-> "Enum", bits |-> BitLen(variants) + B2N(nullable),
     nullable |-> nullable, variants |-> variants, schema |-> schema, host |-> host]

RECURSIVE SumBits(_, _)
SumBits(fields, i) == IF i > Len(fields) THEN 0 ELSE fields[i].bits + SumBits(fields, i + 1)

RecordField_new(fields, nullable) ==
    [kind |-> "Record", bits |-> SumBits(fields, 1) + B2N(nullable),
     nullable |-> nullable, fields |-> fields]

ArrayField_new_WidthTag(max_length, field, nullable) ==
    [kind |-> "Array",
     bits |-> (IF max_length = 0..31 THEN 5 ELSE 32 - leading_zeros_u32(max_length))
              + B2N(nullable),
     nullable |-> nullable, max_length |-> max_length, items_field |-> field]

\* max_length: u32 as a word (u32::MAX when the schema gives no maxLength)
ArrayField_new(max_length, field, nullable) ==
    [kind |-> "Array", bits |-> (32 - leading_zeros_u32(max_length)) + B2N(nullable),
     nullable |-> nullable, max_length |-> max_length, items_field |-> field]

is_primitive(field) == field.kind \in {"Int", "Boolean", "Bytes", "Enum"}

RECURSIVE has_bytes_field(_)
has_bytes_field(fields) ==
    \E i \in 1..Len(fields) :
        \/ fields[i].kind = "Bytes"
        \/ fields[i].kind = "Array" /\ has_bytes_field(<<fields[i].items_field>>)
        \/ fields[i].kind = "Record" /\ has_bytes_field(fields[i].fields)

\* valid_types_for_range (min, max as i128; here within i32)
valid_types_for_range(min, max) ==
    IF min >= 0 /\ max <= 255
    THEN {"u8", "u16", "u32", "u64", "u128", "i16", "i32", "i64", "i128"}
    ELSE IF min >= -128 /\ max <= 127 THEN {"i8", "i16", "i32", "i64", "i128"}
    ELSE IF min >= 0 /\ max <= 65535 THEN {"u16", "u32", "u64", "u128", "i32", "i64", "i128"}
    ELSE IF min >= -32768 /\ max <= 32767 THEN {"i16", "i32", "i64", "i128"}
    ELSE IF min >= 0 THEN {"u32", "u64", "u128", "i64", "i128"}
    ELSE {"i32", "i64", "i128"}

\* validate_field_type for an Int field: the types the check accepts
valid_types(min, max) ==
    valid_types_for_range(IF min # <<>> THEN min[1] ELSE MinI32,
                          IF max # <<>> THEN max[1] ELSE MaxI32)

-----------------------------------------------------------------------------
(* Host values.  An integer of any host type is the word of its 64-bit sign  *)
(* or zero extension, so `as u64` is the word itself and `as i32` its low    *)
(* 32 bits.  A bool is a BOOLEAN, Vec<u8> a sequence of bytes, an enum a     *)
(* variant name, a struct the sequence of its fields' values in schema       *)
(* order, a Vec the sequence of its items.                                   *)

Unsigned == {"u8", "u16", "u32", "u64"}
TypeWidth(ty) ==
    CASE ty \in {"u8", "i8"} -> 8 [] ty \in {"u16", "i16"} -> 16
      [] ty \in {"u32", "i32"} -> 32 [] OTHER -> 64

\* S is a value of the host type ty
TypeOk(ty, S) ==
    IF ty \in Unsigned THEN S \subseteq 0..(TypeWidth(ty) - 1)
    ELSE \/ S \cap ((TypeWidth(ty) - 1)..63) = {}
         \/ (TypeWidth(ty) - 1)..63 \subseteq S

\* i32 -> host type by TryFrom: <<>> on TryFromIntError
try_from_i32(ty, n) ==
    LET S == u64_of_i32(n) IN
    IF TypeOk(ty, S) /\ (ty \in Unsigned => n >= 0) THEN <<S>> ELSE <<>>

\* u64 -> host type by TryFrom
try_from_u64(ty, S) ==
    IF ty \in Unsigned THEN (IF TypeOk(ty, S) THEN <<S>> ELSE <<>>)
    ELSE IF S \subseteq 0..(TypeWidth(ty) - 2) THEN <<S>> ELSE <<>>

\* n > the u32 held by the word S, for n < 2^31
GreaterThanU32(n, S) == S \cap (31..63) = {} /\ n > NatOfBits(S)

\* position (0-based) of a variant in a declaration order
IndexOf(names, v) == (CHOOSE i \in 1..Len(names) : names[i] = v) - 1

-----------------------------------------------------------------------------
(* The generated encode (encode.rs).  The state threaded through the emitted  *)
(* statements is [writer, buffers, err]; `?` and `return Err` set err and     *)
(* every later statement is skipped.                                          *)

\* From<WriteError> for EncodeError (errors.rs)
EncodeError_from(e) == IF e = "ValueTooLarge" THEN "OutOfBounds" ELSE e

\* writer.write(value, count)?
wr(st, value, count, oc) ==
    IF st.err # "none" THEN st
    ELSE LET got == write(st.writer, value, count, oc) IN
         IF got.res = "Ok" THEN [st EXCEPT !.writer = got.w]
         ELSE [st EXCEPT !.err = EncodeError_from(got.res)]

fail(st, e) == IF st.err # "none" THEN st ELSE [st EXCEPT !.err = e]

\* `bits as u8`
bits_u8(field) == field.bits % 256

\* (64 - (v as u64).leading_zeros()) as u8
bits_width(v) == IF v = {} THEN 0 ELSE 1 + (CHOOSE i \in v : \A j \in v : j <= i)

encode_int(field, v, st, oc) ==
    IF field.min # <<>> /\ field.max # <<>>
    THEN LET x == i32_of_word(v) IN
         IF ~(field.min[1] <= x /\ x <= field.max[1]) THEN fail(st, "OutOfBounds")
         ELSE IF oc /\ SubOverflows(x, field.min[1]) THEN fail(st, "Panic")
         ELSE wr(st, u64_of_i32(wrapping_sub(x, field.min[1])), bits_u8(field), oc)
    ELSE wr(wr(st, BitsOfNat(bits_width(v)), bits_u8(field), oc), v, bits_width(v), oc)

encode_bytes(field, v, st, oc) ==
    LET checked == field.max_length # <<>> /\ field.max_length[1] # 0..31 IN
    IF checked /\ GreaterThanU32(Len(v), field.max_length[1]) THEN fail(st, "OutOfBounds")
    ELSE wr(IF st.err # "none" THEN st ELSE [st EXCEPT !.buffers = Append(@, v)],
            BitsOfNat(Len(v)), bits_u8(field), oc)

RECURSIVE encode_field(_, _, _, _)
RECURSIVE encode_fields(_, _, _, _, _)
RECURSIVE encode_items(_, _, _, _, _)

encode_body(field, v, st, oc) ==
    CASE field.kind = "Int" -> encode_int(field, v, st, oc)
      [] field.kind = "Boolean" -> wr(st, IF v THEN {0} ELSE {}, 1, oc)
      [] field.kind = "Enum" -> wr(st, BitsOfNat(IndexOf(field.host, v)), bits_u8(field), oc)
      [] field.kind = "Bytes" -> encode_bytes(field, v, st, oc)
      [] field.kind = "Record" -> encode_fields(field.fields, v, 1, st, oc)
      [] field.kind = "Array" ->
            encode_items(field.items_field, v, 1,
                         wr(st, BitsOfNat(Len(v)), bits_u8(field), oc), oc)

\* encode_nullable around the body
encode_field(field, v, st, oc) ==
    IF field.nullable
    THEN IF v # <<>> THEN encode_body(field, v[1], wr(st, {0}, 1, oc), oc)
         ELSE wr(st, {}, 1, oc)
    ELSE encode_body(field, v, st, oc)

encode_fields(fields, vs, i, st, oc) ==
    IF i > Len(fields) THEN st
    ELSE encode_fields(fields, vs, i + 1, encode_field(fields[i], vs[i], st, oc), oc)

encode_items(item_field, items, i, st, oc) ==
    IF i > Len(items) THEN st
    ELSE encode_items(item_field, items, i + 1, encode_field(item_field, items[i], st, oc), oc)

RECURSIVE Concat_Forward(_, _)
Concat_Forward(seqs, i) == IF i < 1 THEN <<>> ELSE Concat_Forward(seqs, i - 1) \o seqs[i]

RECURSIVE Concat(_, _)
Concat(seqs, i) == IF i < 1 THEN <<>> ELSE seqs[i] \o Concat(seqs, i - 1)

\* the capacity hint: top-level arrays and bytes fields only
RECURSIVE capacity_bits(_, _, _)
capacity_bits(fields, vs, i) ==
    IF i > Len(fields) THEN 0
    ELSE (IF fields[i].kind = "Array"
          THEN fields[i].items_field.bits * Len(vs[i]) ELSE 0)
         + capacity_bits(fields, vs, i + 1)

RECURSIVE capacity_bytes(_, _, _)
capacity_bytes(fields, vs, i) ==
    IF i > Len(fields) THEN 0
    ELSE (IF fields[i].kind = "Bytes" THEN Len(vs[i]) ELSE 0)
         + capacity_bytes(fields, vs, i + 1)

total_bytes(fields, vs) ==
    ((SumBits(fields, 1) + capacity_bits(fields, vs, 1) + 7) \div 8)
    + capacity_bytes(fields, vs, 1)

\* Encode::encode of a struct: [err, bytes, stream, writer, buffers]; bytes
\* is what the caller gets, stream the part of it that into_bytes returned
encode(fields, vs, oc) ==
    LET st == encode_fields(fields, vs, 1,
                  [writer |-> with_capacity(total_bytes(fields, vs)),
                   buffers |-> <<>>, err |-> "none"], oc)
        bin == into_bytes(st.writer)
    IN  IF st.err # "none"
        THEN [err |-> st.err, bytes |-> <<>>, stream |-> <<>>,
              writer |-> st.writer, buffers |-> st.buffers]
        ELSE [err |-> "none",
              bytes |-> IF has_bytes_field(fields)
                        THEN bin.bytes \o Concat(st.buffers, Len(st.buffers))
                        ELSE bin.bytes,
              stream |-> bin.bytes, writer |-> st.writer, buffers |-> st.buffers]

-----------------------------------------------------------------------------
(* The generated decode (decode.rs).  The state threaded through is          *)
(* [reader, buffers_end_index, err, nread, garbage]; a step returns          *)
(* [d |-> state, v |-> value], v meaningless once err is set.  nread counts  *)
(* the bits of the successful reads.                                         *)

\* From<ReadError> for DecodeError (errors.rs)
DecodeError_from(e) ==
    CASE e = "NotEnoughBits" -> "NotEnoughBits"
      [] e = "InvalidBitCount" -> "OutOfBounds"
      [] OTHER -> e

\* reader.read(count)?, `got` being what read returned
rd_result(d, count, got) ==
    IF got.res = "Ok"
    THEN [d |-> [d EXCEPT !.reader = got.r, !.nread = @ + count], v |-> got.value]
    ELSE [d |-> [d EXCEPT !.err = DecodeError_from(got.res)], v |-> {}]

rd(d, count, oc) ==
    IF d.err # "none" THEN [d |-> d, v |-> {}]
    ELSE rd_result(d, count, read(d.reader, count, d.garbage, oc))

dfail(d, e) == IF d.err # "none" THEN d ELSE [d EXCEPT !.err = e]

\* a usize that the model can count to: below 2^20
Countable(S) == S \subseteq 0..19

\* the field's `.try_into()?` of a decoded integer, conv being its result
converted(d, conv) ==
    IF conv = <<>> THEN [d |-> dfail(d, "OutOfBounds"), v |-> {}]
    ELSE [d |-> d, v |-> conv[1]]

\* the statements after `let value = reader.read(bits)?` of a bounded Int
decode_int_bounded(field, got, x, oc) ==
    IF got.d.err # "none" THEN [d |-> got.d, v |-> {}]
    ELSE IF oc /\ AddOverflows(x, field.min[1])
    THEN [d |-> dfail(got.d, "Panic"), v |-> {}]
    ELSE IF ~(field.min[1] <= wrapping_add(x, field.min[1])
              /\ wrapping_add(x, field.min[1]) <= field.max[1])
    THEN [d |-> dfail(got.d, "OutOfBounds"), v |-> {}]
    ELSE converted(got.d, try_from_i32(field.host, wrapping_add(x, field.min[1])))

\* the statements after `reader.read(bits_width)?` of an unbounded Int
decode_int_unbounded(field, got) ==
    IF got.d.err # "none" THEN [d |-> got.d, v |-> {}]
    ELSE converted(got.d, try_from_u64(field.host, got.v))

\* reader.read(bits_width)?, w being the read of the width (`as u8`)
decode_int_payload(field, w, oc) ==
    decode_int_unbounded(field, rd(w.d, NatOfBits(w.v \cap (0..7)), oc))

decode_int_value(field, got, oc) ==
    decode_int_bounded(field, got, i32_of_word(got.v), oc)

decode_int(field, d, oc) ==
    IF field.min # <<>> /\ field.max # <<>>
    THEN decode_int_value(field, rd(d, bits_u8(field), oc), oc)
    ELSE decode_int_payload(field, rd(d, bits_u8(field), oc), oc)

\* bytes.get(buffers_end_index - length .. buffers_end_index), length read
decode_bytes_get(got, end, fits, oc) ==
    IF got.d.err # "none" THEN [d |-> got.d, v |-> <<>>]
    ELSE IF ~fits
    THEN \* buffers_end_index - length underflows: a panic, or it wraps,
         \* get(..) is None and the error is returned
         [d |-> dfail(got.d, IF oc THEN "Panic" ELSE "NotEnoughBytes"), v |-> <<>>]
    ELSE [d |-> [got.d EXCEPT !.buffers_end_index = end - NatOfBits(got.v)],
          v |-> SubSeq(got.d.reader.bytes, end - NatOfBits(got.v) + 1, end)]

decode_bytes_length(got, oc) ==
    decode_bytes_get(got, got.d.buffers_end_index,
                     Countable(got.v) /\ NatOfBits(got.v) <= got.d.buffers_end_index, oc)

decode_bytes(field, d, oc) == decode_bytes_length(rd(d, bits_u8(field), oc), oc)

decode_enum_variant_NoDefaultArm(field, got, n) ==
    IF got.d.err # "none" THEN [d |-> got.d, v |-> ""]
    ELSE [d |-> got.d, v |-> field.host[(n % Len(field.host)) + 1]]

\* `reader.read(bits)? as u8` and the enum's TryInto<Name> for u8
decode_enum_variant(field, got, n) ==
    IF got.d.err # "none" THEN [d |-> got.d, v |-> ""]
    ELSE IF n >= Len(field.host) THEN [d |-> dfail(got.d, "OutOfBounds"), v |-> ""]
    ELSE [d |-> got.d, v |-> field.host[n + 1]]

decode_enum_ordinal(field, got) ==
    decode_enum_variant(field, got, NatOfBits(got.v \cap (0..7)))

decode_enum(field, d, oc) == decode_enum_ordinal(field, rd(d, bits_u8(field), oc))

decode_bool(got) == [d |-> got.d, v |-> got.v = {0}]

RECURSIVE decode_field(_, _, _)
RECURSIVE decode_fields(_, _, _, _, _)
RECURSIVE decode_items(_, _, _, _, _)

\* the loop of an Array over the length that was read
decode_array(field, got, oc) ==
    IF got.d.err # "none" THEN [d |-> got.d, v |-> <<>>]
    ELSE IF ~Countable(got.v)
    THEN \* Vec::with_capacity(length) of more items than memory holds
         [d |-> dfail(got.d, "Panic"), v |-> <<>>]
    ELSE decode_items(field.items_field, NatOfBits(got.v), <<>>, got.d, oc)

decode_body(field, d, oc) ==
    CASE field.kind = "Int" -> decode_int(field, d, oc)
      [] field.kind = "Boolean" -> decode_bool(rd(d, 1, oc))
      [] field.kind = "Enum" -> decode_enum(field, d, oc)
      [] field.kind = "Bytes" -> decode_bytes(field, d, oc)
      [] field.kind = "Record" -> decode_fields(field.fields, 1, <<>>, d, oc)
      [] field.kind = "Array" -> decode_array(field, rd(d, bits_u8(field), oc), oc)

\* Some(value)
some(got) == [d |-> got.d, v |-> <<got.v>>]

\* decode_nullable around the body, flag being the read of the presence bit
decode_present(field, flag, oc) ==
    IF flag.d.err # "none" THEN [d |-> flag.d, v |-> <<>>]
    ELSE IF flag.v = {0} THEN some(decode_body(field, flag.d, oc))
    ELSE [d |-> flag.d, v |-> <<>>]

decode_field(field, d, oc) ==
    IF field.nullable THEN decode_present(field, rd(d, 1, oc), oc)
    ELSE decode_body(field, d, oc)

\* the rest of the struct after field i
decode_rest(fields, i, acc, got, oc) ==
    decode_fields(fields, i + 1, Append(acc, got.v), got.d, oc)

decode_fields(fields, i, acc, d, oc) ==
    IF i > Len(fields) \/ d.err # "none" THEN [d |-> d, v |-> acc]
    ELSE decode_rest(fields, i, acc, decode_field(fields[i], d, oc), oc)

\* items.push(item.try_into()?) and the rest of the loop
decode_push(item_field, n, acc, got, oc) ==
    decode_items(item_field, n - 1, Append(acc, got.v), got.d, oc)

decode_items(item_field, n, acc, d, oc) ==
    IF n = 0 \/ d.err # "none" THEN [d |-> d, v |-> acc]
    ELSE decode_push(item_field, n, acc, decode_field(item_field, d, oc), oc)

\* Ok(Name { .. }) or the error
decode_result(got) ==
    [err |-> got.d.err, value |-> IF got.d.err = "none" THEN got.v ELSE <<>>,
     reader |-> got.d.reader, buffers_end_index |-> got.d.buffers_end_index,
     nread |-> got.d.nread]

\* Decode::decode of a struct: [err, value, reader, buffers_end_index, nread]
decode(fields, bytes, garbage, oc) ==
    decode_result(decode_fields(fields, 1, <<>>,
                      [reader |-> new(bytes), buffers_end_index |-> Len(bytes),
                       err |-> "none", nread |-> 0, garbage |-> garbage], oc))

-----------------------------------------------------------------------------
(* The schema loader (schema.rs).  A FieldSpec is the JSON of one field with  *)
(* its dependency resolved in place, together with the type the user's       *)
(* struct declares for it: [type, nullable, ...].  parse_field returns <<>>  *)
(* when the loader fails and <<field>> otherwise.                            *)

U32_MAX == 0..31

RECURSIVE parse_field(_, _)
RECURSIVE parse_fields(_, _, _, _)

array_max_length(spec) == IF spec.maxLength # <<>> THEN spec.maxLength[1] ELSE U32_MAX

\* `variants.len() as u8`
variants_u8(spec) == Len(spec.variants) % 256

parse_field(spec, oc) ==
    CASE spec.type = "int" ->
            IF spec.min # <<>> /\ spec.max # <<>> /\ spec.min[1] > spec.max[1] THEN <<>>
            ELSE IntField_new(spec.min, spec.max, spec.nullable, spec.host, oc)
      [] spec.type = "bool" -> << BooleanField_new(spec.nullable) >>
      [] spec.type = "bytes" -> << BytesField_new(spec.maxLength, spec.nullable) >>
      [] spec.type = "array" ->
            LET items_field == parse_field(spec.items, oc) IN
            IF items_field = <<>> THEN <<>>
            ELSE << ArrayField_new(array_max_length(spec), items_field[1], spec.nullable) >>
      [] spec.type = "enum" ->
            << EnumField_new(variants_u8(spec), spec.nullable, spec.variants, spec.host) >>
      [] spec.type = "record" ->
            LET sub == parse_fields(spec.fields, 1, <<>>, oc) IN
            IF sub = <<>> THEN <<>> ELSE << RecordField_new(sub[1], spec.nullable) >>

\* the loop of Schema::parse_from_file over "fields": <<>> or <<fields>>
parse_fields(specs, i, acc, oc) ==
    IF i > Len(specs) THEN <<acc>>
    ELSE LET f == parse_field(specs[i], oc) IN
         IF f = <<>> THEN <<>> ELSE parse_fields(specs, i + 1, Append(acc, f[1]), oc)

\* validate_field_type, applied by the derive of every struct of the schema
RECURSIVE validate_field_type(_)
validate_field_type(field) ==
    CASE field.kind = "Int" -> field.host \in valid_types(field.min, field.max)
      [] field.kind = "Array" -> validate_field_type(field.items_field)
      [] field.kind = "Record" ->
            \A i \in 1..Len(field.fields) : validate_field_type(field.fields[i])
      [] OTHER -> TRUE

\* validate_enum_schema: every variant of the host enum is in the schema and
\* every variant of the schema is in the host enum
validate_enum_schema(schema, host) ==
    /\ \A i \in 1..Len(host) : \E j \in 1..Len(schema) : schema[j] = host[i]
    /\ \A j \in 1..Len(schema) : \E i \in 1..Len(host) : host[i] = schema[j]

\* the derives of the enums a field tree names all pass validate_enum_schema
RECURSIVE validate_enums(_)
validate_enums(field) ==
    CASE field.kind = "Enum" -> validate_enum_schema(field.schema, field.host)
      [] field.kind = "Array" -> validate_enums(field.items_field)
      [] field.kind = "Record" ->
            \A i \in 1..Len(field.fields) : validate_enums(field.fields[i])
      [] OTHER -> TRUE

-----------------------------------------------------------------------------
(* The bit stream driven on its own: writes, into_bytes, then the reads of  *)
(* the written widths in the same order.                                    *)

MaxWrites == 3

Alt(c) == {i \in 0..(c - 1) : i % 2 = 0} \cup (IF c > 0 THEN {c - 1} ELSE {})

WriteCounts == {0, 1, 7, 33, 64, 65}

\* per width: an alternating pattern with the top bit set, all ones, a value
\* of one bit too many, and zero
WriteValues(c) ==
    IF c > 64 THEN {{0}}
    ELSE {Alt(c)} \cup (IF c = 7 THEN {Low(c)} ELSE {}) \cup (IF c < 64 THEN {{c}} ELSE {})

Capacities == {0, 16}
Garbage == {0, 255}

NoCall == [op |-> "none", value |-> {}, count |-> 0, res |-> "none", ret |-> {}, k |-> 0]
NoReader == new(<<>>)
NoOut == [bytes |-> <<>>, overrun |-> 0]
NoEncoded == [err |-> "none", bytes |-> <<>>, stream |-> <<>>,
              writer |-> with_capacity(0), buffers |-> <<>>]
NoDecoded == [err |-> "none", value |-> <<>>, reader |-> NoReader,
              buffers_end_index |-> 0, nread |-> 0]

ValueBits(value, count) == [i \in 1..count |-> IF (i - 1) \in value THEN 1 ELSE 0]

Init ==
    /\ overflow_checks \in BOOLEAN
    /\ pc = "writing"
    /\ writer \in {with_capacity(n) : n \in Capacities}
    /\ out = NoOut
    /\ reader = NoReader
    /\ last = NoCall
    /\ before = writer
    /\ log = <<>>
    /\ bitlog = <<>>
    /\ schema_json = <<>> /\ record_fields = <<>> /\ host_value = <<>>
    /\ encoded = NoEncoded /\ wire = <<>> /\ decoded = NoDecoded
    /\ struct_names = <<>> /\ schema_names = <<>> /\ accessed = <<>>
    /\ files = <<>> /\ stack = <<>> /\ returned = "none"

Write ==
    /\ pc = "writing"
    /\ Len(log) < MaxWrites
    /\ \E count \in WriteCounts : \E value \in WriteValues(count) :
        LET got == write(writer, value, count, overflow_checks) IN
        /\ writer' = got.w
        /\ before' = writer
        /\ last' = [op |-> "write", value |-> value, count |-> count,
                    res |-> got.res, ret |-> {}, k |-> 0]
        /\ log' = IF got.res = "Ok" THEN Append(log, <<value, count>>) ELSE log
        /\ bitlog' = IF got.res = "Ok" THEN bitlog \o ValueBits(value, count) ELSE bitlog
        /\ pc' = IF got.res = "Panic" THEN "panicked" ELSE "writing"
    /\ UNCHANGED <<overflow_checks, namevars, loadvars, out, reader, codecvars>>

IntoBytes ==
    /\ pc = "writing"
    /\ out' = into_bytes(writer)
    /\ reader' = new(out'.bytes)
    /\ pc' = "reading"
    /\ last' = [NoCall EXCEPT !.op = "into_bytes"]
    /\ before' = writer
    /\ UNCHANGED <<overflow_checks, namevars, loadvars, writer, log, bitlog, codecvars>>

ReadBack ==
    /\ pc = "reading"
    /\ \E k \in 1..Len(log) : \E garbage \in Garbage :
        /\ k = (IF last.op = "read" THEN last.k + 1 ELSE 1)
        /\ LET got == read(reader, log[k][2], garbage, overflow_checks) IN
           /\ reader' = got.r
           /\ before' = reader
           /\ last' = [op |-> "read", value |-> {}, count |-> log[k][2],
                       res |-> got.res, ret |-> got.value, k |-> k]
           /\ pc' = IF got.res = "Panic" THEN "panicked" ELSE "reading"
    /\ UNCHANGED <<overflow_checks, namevars, loadvars, writer, out, log, bitlog, codecvars>>

Next == Write \/ IntoBytes \/ ReadBack

Spec == Init /\ [][Next]_vars

-----------------------------------------------------------------------------
(* The schemas and the host values the codec is driven with.                 *)

MaxLen == 2          \* longest Vec<u8> and Vec<T> handed to encode
MaxInput == 3        \* longest input handed to decode on its own

NoSpec == [type |-> "none", nullable |-> FALSE, min |-> <<>>, max |-> <<>>, host |-> "",
           maxLength |-> <<>>, items |-> <<>>, variants |-> <<>>, fields |-> <<>>]
IntSpec(min, max, nullable, host) ==
    [NoSpec EXCEPT !.type = "int", !.min = min, !.max = max,
                   !.nullable = nullable, !.host = host]
BoolSpec(nullable) == [NoSpec EXCEPT !.type = "bool", !.nullable = nullable]
BytesSpec(maxLength, nullable) ==
    [NoSpec EXCEPT !.type = "bytes", !.maxLength = maxLength, !.nullable = nullable]
EnumSpec(variants, nullable) ==
    [type |-> "enum", nullable |-> nullable, min |-> <<>>, max |-> <<>>, host |-> variants,
     maxLength |-> <<>>, items |-> <<>>, variants |-> variants, fields |-> <<>>]
\* an enum schema and a host enum that declares `host` in that order
EnumSpecAs(variants, host, nullable) ==
    [type |-> "enum", nullable |-> nullable, min |-> <<>>, max |-> <<>>, host |-> host,
     maxLength |-> <<>>, items |-> <<>>, variants |-> variants, fields |-> <<>>]
ArraySpec(maxLength, items, nullable) ==
    [type |-> "array", nullable |-> nullable, min |-> <<>>, max |-> <<>>, host |-> "",
     maxLength |-> maxLength, items |-> items, variants |-> <<>>, fields |-> <<>>]
RecordSpec(fields, nullable) ==
    [type |-> "record", nullable |-> nullable, min |-> <<>>, max |-> <<>>, host |-> "",
     maxLength |-> <<>>, items |-> <<>>, variants |-> <<>>, fields |-> fields]

\* every case is a schema and a struct for which both derives compile, but
\* for the nullable unbounded Int, whose struct can derive Encode only, and
\* the last but one, whose enum lacks a variant of the schema
SchemaCases ==
    << << IntSpec(<<10>>, <<13>>, FALSE, "u8") >>,
       << IntSpec(<<10>>, <<13>>, TRUE, "i32"), BoolSpec(FALSE) >>,
       << IntSpec(<<0>>, <<100>>, FALSE, "u64") >>,
       << IntSpec(<<0>>, <<100>>, FALSE, "u32") >>,
       << IntSpec(<<-5>>, <<5>>, FALSE, "i64"), BoolSpec(TRUE) >>,
       << IntSpec(<<5>>, <<5>>, FALSE, "u8"), BoolSpec(FALSE) >>,
       << IntSpec(<<>>, <<>>, FALSE, "i32"), BoolSpec(FALSE) >>,
       << IntSpec(<<>>, <<>>, FALSE, "i64") >>,
       << IntSpec(<<MinI32>>, <<MaxI32>>, FALSE, "i32") >>,
       << BoolSpec(FALSE), BoolSpec(TRUE), BoolSpec(FALSE) >>,
       << BytesSpec(<<BitsOfNat(1)>>, FALSE), BoolSpec(FALSE), BytesSpec(<<>>, FALSE) >>,
       << EnumSpec(<<"A", "B", "C">>, FALSE), BoolSpec(TRUE) >>,
       << ArraySpec(<<BitsOfNat(3)>>, IntSpec(<<0>>, <<3>>, FALSE, "u8"), FALSE) >>,
       << ArraySpec(<<>>, BoolSpec(FALSE), FALSE), BoolSpec(FALSE) >>,
       << RecordSpec(<< IntSpec(<<0>>, <<7>>, FALSE, "u8"), BoolSpec(TRUE) >>, TRUE),
          BoolSpec(FALSE) >>,
       << IntSpec(<<10>>, <<13>>, FALSE, "i8") >>,
       << BytesSpec(<<>>, FALSE), IntSpec(<<0>>, <<1000>>, FALSE, "u16") >>,
       << RecordSpec(<< BytesSpec(<<>>, FALSE) >>, FALSE),
          BytesSpec(<<BitsOfNat(2)>>, FALSE) >>,
       << BytesSpec(<<BitsOfNat(2)>>, FALSE) >>,
       << EnumSpecAs(<<"A", "B", "C">>, <<"B", "A", "C">>, FALSE), BoolSpec(FALSE) >>,
       << IntSpec(<<MaxI32 - 1>>, <<MaxI32>>, FALSE, "u32") >>,
       << IntSpec(<<>>, <<>>, TRUE, "i64") >>,
       << EnumSpecAs(<<"A", "B", "C">>, <<"A", "B">>, FALSE) >>,
       << ArraySpec(<<BitsOfNat(2)>>, BoolSpec(FALSE), FALSE) >> >>

\* the value whose low 32 bits are those of n and whose bit 32 is set
Alias32(n) == (u64_of_i32(n) \cap (0..31)) \cup {32}

IntValues(field) ==
    LET cand == IF field.min # <<>> /\ field.max # <<>>
                THEN {u64_of_i32(n) : n \in {field.min[1], field.max[1],
                                             wrapping_sub(field.min[1], 1),
                                             wrapping_add(field.max[1], 1)}}
                     \cup {Alias32(field.min[1])}
                ELSE {{}, {0}, {0, 2}, {30}, Low(31), {31}, {40}, 0..63}
    IN  {S \in cand : TypeOk(field.host, S)}

BytesOfLen(n) == [i \in 1..n |-> 16 * n + i]

RECURSIVE HostValues(_)
RECURSIVE Tuples(_, _)

BodyValues(field) ==
    CASE field.kind = "Int" -> IntValues(field)
      [] field.kind = "Boolean" -> BOOLEAN
      [] field.kind = "Enum" -> {field.host[i] : i \in 1..Len(field.host)}
      [] field.kind = "Bytes" -> {BytesOfLen(n) : n \in 0..MaxLen}
      [] field.kind = "Record" -> Tuples(field.fields, 1)
      [] field.kind = "Array" ->
            {[i \in 1..n |-> x] : n \in 0..(MaxLen + 1), x \in HostValues(field.items_field)}

HostValues(field) ==
    IF field.nullable THEN {<<>>} \cup {<<v>> : v \in BodyValues(field)}
    ELSE BodyValues(field)

\* the values of a struct: one value per field, in schema order
Tuples(fields, i) ==
    IF i > Len(fields) THEN {<<>>}
    ELSE {<<v>> \o rest : v \in HostValues(fields[i]), rest \in Tuples(fields, i + 1)}

InputBytes == {0, 1, 170, 255}
Inputs == UNION {[1..n -> InputBytes] : n \in 0..MaxInput}

\* the struct can derive Decode: `{ read_call }.try_into()?` has to convert
\* what the read yields into the field's type, and the Option<u64> of a
\* nullable unbounded Int converts to no Option of a signed integer
decode_compiles(fields) ==
    \A i \in 1..Len(fields) :
        ~(fields[i].kind = "Int" /\ fields[i].nullable
          /\ (fields[i].min = <<>> \/ fields[i].max = <<>>))

InitCodec ==
    /\ overflow_checks \in BOOLEAN
    /\ pc = "schema"
    /\ \E i \in 1..Len(SchemaCases) : schema_json = SchemaCases[i]
    /\ record_fields = <<>> /\ host_value = <<>>
    /\ encoded = NoEncoded /\ wire = <<>> /\ decoded = NoDecoded
    /\ writer = with_capacity(0) /\ out = NoOut /\ reader = NoReader
    /\ last = NoCall /\ before = NoCall /\ log = <<>> /\ bitlog = <<>>
    /\ struct_names = <<>> /\ schema_names = <<>> /\ accessed = <<>>
    /\ files = <<>> /\ stack = <<>> /\ returned = "none"

\* the derive macros load the schema and validate the struct against it
Load ==
    /\ pc = "schema"
    /\ LET parsed == parse_fields(schema_json, 1, <<>>, overflow_checks) IN
       IF parsed = <<>>
       THEN pc' = "rejected" /\ UNCHANGED record_fields
       ELSE IF ~(\A i \in 1..Len(parsed[1]) : /\ validate_field_type(parsed[1][i])
                                              /\ validate_enums(parsed[1][i]))
       THEN pc' = "rejected" /\ UNCHANGED record_fields
       ELSE pc' = "loaded" /\ record_fields' = parsed[1]
    /\ UNCHANGED <<overflow_checks, namevars, loadvars, streamvars, schema_json, host_value, encoded, wire, decoded>>

Encode ==
    /\ pc = "loaded"
    /\ \E v \in Tuples(record_fields, 1) :
          /\ host_value' = v
          /\ encoded' = encode(record_fields, v, overflow_checks)
    /\ pc' = "encoded"
    /\ UNCHANGED <<overflow_checks, namevars, loadvars, streamvars, schema_json, record_fields, wire, decoded>>

\* decode of what encode returned
Decode ==
    /\ pc = "encoded" /\ encoded.err = "none"
    /\ decode_compiles(record_fields)
    /\ \E g \in Garbage :
          /\ wire' = encoded.bytes
          /\ decoded' = decode(record_fields, encoded.bytes, g, overflow_checks)
    /\ pc' = "decoded"
    /\ UNCHANGED <<overflow_checks, namevars, loadvars, streamvars, schema_json, record_fields, host_value, encoded>>

\* decode of a proper prefix of what encode returned
DecodeTruncated ==
    /\ pc = "encoded" /\ encoded.err = "none"
    /\ decode_compiles(record_fields)
    /\ \E n \in 0..(Len(encoded.bytes) - 1), g \in Garbage :
          /\ wire' = SubSeq(encoded.bytes, 1, n)
          /\ decoded' = decode(record_fields, SubSeq(encoded.bytes, 1, n), g, overflow_checks)
    /\ pc' = "decoded_truncated"
    /\ UNCHANGED <<overflow_checks, namevars, loadvars, streamvars, schema_json, record_fields, host_value, encoded>>

\* decode of bytes that no encode produced
DecodeInput ==
    /\ pc = "loaded"
    /\ decode_compiles(record_fields)
    /\ \E bytes \in Inputs, g \in Garbage :
          /\ wire' = bytes
          /\ decoded' = decode(record_fields, bytes, g, overflow_checks)
    /\ pc' = "decoded_input"
    /\ UNCHANGED <<overflow_checks, namevars, loadvars, streamvars, schema_json, record_fields, host_value, encoded>>

NextCodec == Load \/ Encode \/ Decode \/ DecodeTruncated \/ DecodeInput

SpecCodec == InitCodec /\ [][NextCodec]_vars

-----------------------------------------------------------------------------
(* Claims about the bit stream on its own (specification Spec) *)

\* into_bytes has returned
Finished == last.op \in {"into_bytes", "read"}

\* bit k (0-based) of a byte sequence, bit (k mod 8) of byte (k div 8)
BitOf(bytes, k) == (bytes[(k \div 8) + 1] \div (2 ^ (k % 8))) % 2

\* C2: after writes of widths 1..64, reading the written widths back in the
\* same order from a reader over into_bytes() returns each written value.
C2_BitStreamRoundTrip ==
    (last.op = "read" /\ \A i \in 1..Len(log) : log[i][2] \in 1..64)
        => (last.res = "Ok" /\ last.ret = log[last.k][1])

\* C2 witness: the third value read back, 33 bits wide and not zero, from a
\* stream that crossed a 64-bit flush and with a refill that loaded bytes
\* past the end of the input.
C2_Witness ==
    /\ last.op = "read" /\ last.k = 3 /\ last.res = "Ok"
    /\ \A i \in 1..Len(log) : log[i][2] \in 1..64
    /\ last.count = 33 /\ last.ret # {}
    /\ writer.bytes_written >= 8
    /\ reader.byte_idx > Len(reader.bytes)

\* C3: bit k of the concatenated written values is bit (k mod 8) of byte
\* (k div 8) of the output of into_bytes.
C3_WireLayout ==
    Finished =>
        /\ Len(out.bytes) * 8 >= Len(bitlog)
        /\ \A k \in 0..(Len(bitlog) - 1) : BitOf(out.bytes, k) = bitlog[k + 1]

\* C3 witness: an output of more than 8 bytes whose value written across the
\* flush boundary has bits on both sides of it.
C3_Witness ==
    /\ Finished
    /\ Len(out.bytes) > 8
    /\ \E i \in 1..Len(log) : log[i][2] = 33
    /\ Len(bitlog) > 64 /\ bitlog[64] = 1 /\ bitlog[65] = 1
    /\ writer.buffer_filled \in 1..63

\* C4: write returns ValueTooLarge exactly when count > 64 or (count < 64 and
\* value >= 2^count), succeeds in every other case, and leaves the writer as
\* it was when it fails.
C4_WriteErrorExactly ==
    last.op = "write" =>
        LET too_large == last.count > 64
                         \/ (last.count < 64 /\ \E i \in last.value : i >= last.count)
        IN  /\ (last.res = "ValueTooLarge") <=> too_large
            /\ ~too_large => last.res = "Ok"
            /\ last.res # "Ok" => writer = before

\* C4, the failing case: a zero-width write to a writer whose staging buffer
\* is full panics in a build with overflow checks.
C4_Witness ==
    /\ last.op = "write" /\ last.count = 0 /\ last.value = {}
    /\ before.buffer_filled = 64
    /\ last.res = "Panic"

\* C5: into_bytes returns ceil(N/8) bytes for N written bits, and the bits of
\* the last byte above the N-th written bit are 0.
C5_LengthAndPadding ==
    Finished =>
        /\ Len(out.bytes) = (Len(bitlog) + 7) \div 8
        /\ \A k \in Len(bitlog)..(8 * Len(out.bytes) - 1) : BitOf(out.bytes, k) = 0

\* C5 witness: 71 written bits (one flush, 7 staged bits) in 9 bytes.
C5_Witness ==
    /\ Finished
    /\ Len(bitlog) = 71 /\ Len(out.bytes) = 9
    /\ bitlog[71] = 1

-----------------------------------------------------------------------------
(* The reader driven on its own: any input, reads of any width.              *)

MaxReads == 3

ReadCounts == {0, 1, 7, 33, 64, 65, 200}
ReaderInputs == {[i \in 1..n |-> b] : n \in {0, 1, 2, 9}, b \in {165, 255}}

InitReader ==
    /\ overflow_checks \in BOOLEAN
    /\ pc = "reading"
    /\ wire \in ReaderInputs
    /\ reader = new(wire)
    /\ before = reader
    /\ last = NoCall
    /\ writer = with_capacity(0) /\ out = NoOut /\ log = <<>> /\ bitlog = <<>>
    /\ schema_json = <<>> /\ record_fields = <<>> /\ host_value = <<>>
    /\ encoded = NoEncoded /\ decoded = NoDecoded
    /\ struct_names = <<>> /\ schema_names = <<>> /\ accessed = <<>>
    /\ files = <<>> /\ stack = <<>> /\ returned = "none"

Read ==
    /\ pc = "reading"
    /\ last.k < MaxReads
    /\ \E count \in ReadCounts, garbage \in Garbage :
        LET got == read(reader, count, garbage, overflow_checks) IN
        /\ reader' = got.r
        /\ before' = reader
        /\ last' = [op |-> "read", value |-> {}, count |-> count,
                    res |-> got.res, ret |-> got.value, k |-> last.k + 1]
        /\ pc' = IF got.res = "Panic" THEN "panicked" ELSE "reading"
    /\ UNCHANGED <<overflow_checks, namevars, loadvars, writer, out, log, bitlog, wire,
                   schema_json, record_fields, host_value, encoded, decoded>>

NextReader == Read

SpecReader == InitReader /\ [][NextReader]_vars

-----------------------------------------------------------------------------
(* Claims about the reader and the generated codec.                          *)

\* reads on a reader of any input, and the codec
InitDecoding == InitReader \/ InitCodec
NextDecoding == NextReader \/ NextCodec
SpecDecoding == InitDecoding /\ [][NextDecoding]_vars

\* bits appended to a writer so far
written(w) == 8 * w.bytes_written + w.buffer_filled

\* bits that the encode of the first i fields of the struct appended
AppendedUpTo(i) ==
    written(encode_fields(SubSeq(record_fields, 1, i), host_value, 1,
                          [writer |-> with_capacity(0), buffers |-> <<>>, err |-> "none"],
                          overflow_checks).writer)

\* the integer a host value holds lies in [min, max]
InRange(field, S) ==
    /\ IF field.host \in Unsigned THEN S \subseteq 0..30
       ELSE S \cap (31..63) = {} \/ (31..63) \subseteq S
    /\ field.min[1] <= i32_of_word(S)
    /\ i32_of_word(S) <= field.max[1]

Bounded(field) == field.kind = "Int" /\ field.min # <<>> /\ field.max # <<>>

\* the value of field i when there is one to write
Present(i) == ~record_fields[i].nullable \/ host_value[i] # <<>>
Payload(i) == IF record_fields[i].nullable THEN host_value[i][1] ELSE host_value[i]

\* ceil(log2(max - min + 1)) for min <= max, the span taken without overflow
CeilLog2Span(min, max) == IF SubOverflows(max, min) THEN 32 ELSE BitLen(max - min)

\* C1: every host value that encode accepts decodes, from the bytes encode
\* returned, to a value equal to it on every field.
C1_RoundTrip ==
    pc = "decoded" => decoded.err = "none" /\ decoded.value = host_value

\* C1, the failing case: the unbounded Int 0 followed by the Boolean true
\* comes back as 1 and true in a build without overflow checks.
C1_Witness ==
    /\ pc = "decoded" /\ ~overflow_checks
    /\ Len(record_fields) = 2
    /\ record_fields[1].kind = "Int" /\ ~Bounded(record_fields[1])
    /\ host_value = <<{}, TRUE>>
    /\ decoded.err = "none" /\ decoded.value = <<{0}, TRUE>>

\* the reader's half of C6: read returns NotEnoughBits exactly when fewer
\* than count bits remain, and leaves the reader as it was.
ReadNotEnoughBitsExactly ==
    last.op = "read" =>
        /\ (last.res = "NotEnoughBits")
               <=> (8 * Len(before.bytes) - before.bit_position < last.count)
        /\ last.res = "NotEnoughBits" => reader = before

\* C6: read returns NotEnoughBits exactly when fewer than count bits remain,
\* leaving the reader unchanged, and so a decode over an input shorter than
\* the bit stream that encode produced fails with NotEnoughBits.
C6_NotEnoughBits ==
    /\ ReadNotEnoughBitsExactly
    /\ pc = "decoded_truncated" /\ Len(wire) < Len(encoded.stream)
           => decoded.err = "NotEnoughBits"

\* C6, the failing case: a decode over one byte of a two-byte bit stream
\* panics at the length of a Bytes field.
C6_Witness ==
    /\ pc = "decoded_truncated" /\ overflow_checks
    /\ Len(encoded.stream) = 2 /\ Len(wire) = 1
    /\ record_fields[1].kind = "Bytes"
    /\ decoded.err = "Panic"

\* C7: read(count) with count > 64 fails with InvalidBitCount and returns no
\* value.
C7_InvalidBitCount ==
    last.op = "read" /\ last.count > 64 => last.res = "InvalidBitCount"

\* C7, the failing case: read(65) over nine bytes returns Ok with a value in
\* a build without overflow checks.
C7_Witness ==
    /\ last.op = "read" /\ last.count = 65 /\ ~overflow_checks
    /\ Len(before.bytes) = 9 /\ before.bit_position = 0
    /\ last.res = "Ok" /\ last.ret # {}

\* C8: the payload width of an Int field with both bounds, bits() minus the
\* nullable bit, is ceil(log2(max - min + 1)).
C8_IntPayloadWidth ==
    pc = "loaded" =>
        \A i \in 1..Len(record_fields) :
            Bounded(record_fields[i]) =>
                record_fields[i].bits - B2N(record_fields[i].nullable)
                    = CeilLog2Span(record_fields[i].min[1], record_fields[i].max[1])

\* C8, the failing case: min = 10, max = 13 is given 3 bits.
C8_Witness ==
    /\ pc = "loaded" /\ Len(record_fields) = 1
    /\ Bounded(record_fields[1]) /\ ~record_fields[1].nullable
    /\ record_fields[1].min = <<10>> /\ record_fields[1].max = <<13>>
    /\ record_fields[1].bits = 3

\* C9: a nullable Int or Boolean field of fixed width appends exactly 1 bit when the
\* value is absent and 1 + payload_width bits when it is present, the payload
\* width being bits() without the nullable bit; decode consumes what encode
\* appended.
C9_NullableBitCounts ==
    /\ pc \in {"encoded", "decoded"} /\ encoded.err = "none" =>
          \A i \in 1..Len(record_fields) :
             record_fields[i].nullable /\ record_fields[i].kind \in {"Int", "Boolean"}
                 /\ (record_fields[i].kind = "Int" => Bounded(record_fields[i])) =>
                AppendedUpTo(i) - AppendedUpTo(i - 1)
                    = IF host_value[i] = <<>> THEN 1 ELSE 1 + (record_fields[i].bits - 1)
    /\ pc = "decoded" /\ decoded.err = "none" => decoded.nread = written(encoded.writer)

\* C9, the failing case: a present nullable Int of range [10, 13], bits() = 4
\* with the nullable bit, appends 5 bits and decode consumes them.
C9_Witness ==
    /\ pc = "decoded" /\ decoded.err = "none"
    /\ Bounded(record_fields[1]) /\ record_fields[1].nullable
    /\ record_fields[1].bits = 4
    /\ host_value[1] # <<>>
    /\ AppendedUpTo(1) = 5
    /\ decoded.nread = written(encoded.writer)

\* C10: encode of a struct whose first field is a bounded Int holding a host
\* value below min or above max returns OutOfBounds, whatever the host type.
C10_OutOfBoundsRejected ==
    pc = "encoded" /\ Bounded(record_fields[1]) /\ Present(1)
        /\ ~InRange(record_fields[1], Payload(1))
    => encoded.err = "OutOfBounds"

\* C10, the failing case: the u64 value 2^32 for a field of range [0, 100] is
\* accepted and written as 0.
C10_Witness ==
    /\ pc = "encoded"
    /\ Bounded(record_fields[1]) /\ record_fields[1].host = "u64"
    /\ record_fields[1].min = <<0>> /\ record_fields[1].max = <<100>>
    /\ host_value = <<{32}>>
    /\ encoded.err = "none" /\ encoded.bytes = <<0>>

-----------------------------------------------------------------------------
(* Claims about the unbounded Int, Bytes, Enum and Array encodings.          *)

\* ceil(log2(v + 1)) of the integer whose set bits are S
CeilLog2Succ(S) == IF S = {} THEN 0 ELSE (CHOOSE i \in S : \A j \in S : j <= i) + 1

\* the integer held in bits from..(from + n - 1) of a byte sequence, n <= 30
BitsAt(bytes, from, n) ==
    {k \in 0..(n - 1) : BitOf(bytes, from + k) = 1}

UnboundedFirst ==
    /\ record_fields # <<>>
    /\ record_fields[1].kind = "Int" /\ ~Bounded(record_fields[1])
    /\ ~record_fields[1].nullable

\* C11: an unbounded Int value v that encode accepts appends
\* 5 + ceil(log2(v + 1)) bits, the width w in 5 bits and then v in w bits, and
\* decode of the encoded bytes succeeds and consumes the bits that encode
\* appended.
C11_UnboundedIntBits ==
    UnboundedFirst /\ pc \in {"encoded", "decoded"} /\ encoded.err = "none" =>
        LET w == CeilLog2Succ(host_value[1]) IN
        /\ AppendedUpTo(1) = 5 + w
        /\ BitsAt(encoded.stream, 0, 5) = BitsOfNat(w)
        /\ BitsAt(encoded.stream, 5, w) = host_value[1]
        /\ pc = "decoded" =>
               decoded.err = "none" /\ decoded.nread = written(encoded.writer)

\* C11, the failing case: the value 0 is written as the 5-bit width 0 and no
\* payload, and in a build with overflow checks decode panics at the read of
\* the 0 payload bits.
C11_Witness ==
    /\ UnboundedFirst /\ pc = "decoded" /\ overflow_checks
    /\ Len(record_fields) = 1
    /\ host_value = <<{}>>
    /\ AppendedUpTo(1) = 5 /\ encoded.bytes = <<0>>
    /\ decoded.err = "Panic"

\* C12: read(0) returns Ok(0) and consumes no bits in every reader state, and
\* an unbounded Int whose 5-bit width is 0 decodes to the value 0.
C12_ZeroWidthRead ==
    /\ last.op = "read" /\ last.count = 0 =>
           last.res = "Ok" /\ last.ret = {} /\ reader = before
    /\ UnboundedFirst /\ pc \in {"decoded", "decoded_input"}
          /\ Len(wire) >= 1 /\ BitsAt(wire, 0, 5) = {} =>
           decoded.err = "none" /\ decoded.value[1] = {}

\* C12, the failing case: after one bit was read from the byte 255, read(0)
\* returns the 63 bits still held in the buffer in a build without overflow
\* checks.
C12_Witness ==
    /\ last.op = "read" /\ last.count = 0 /\ ~overflow_checks
    /\ before.bit_position = 1 /\ before.filled = 63
    /\ before.bytes = <<255>>
    /\ last.res = "Ok" /\ {0, 1, 2, 3, 4, 5, 6} \subseteq last.ret
    /\ reader = before

\* the present Bytes values of a value tree in encounter order: schema order,
\* array items in index order
RECURSIVE BytesIn(_, _)
RECURSIVE BytesInFields(_, _, _)
RECURSIVE BytesInItems(_, _, _)
BytesIn(field, v) ==
    IF field.nullable /\ v = <<>> THEN <<>>
    ELSE LET body == IF field.nullable THEN v[1] ELSE v IN
         CASE field.kind = "Bytes" -> << [field |-> field, value |-> body] >>
           [] field.kind = "Record" -> BytesInFields(field.fields, body, 1)
           [] field.kind = "Array" -> BytesInItems(field.items_field, body, 1)
           [] OTHER -> <<>>
BytesInFields(fields, vs, i) ==
    IF i > Len(fields) THEN <<>>
    ELSE BytesIn(fields[i], vs[i]) \o BytesInFields(fields, vs, i + 1)
BytesInItems(field, items, i) ==
    IF i > Len(items) THEN <<>>
    ELSE BytesIn(field, items[i]) \o BytesInItems(field, items, i + 1)

\* p_n, ..., p_1 of the Bytes values ps = p_1, ..., p_n
RECURSIVE ReverseTail(_, _)
ReverseTail(ps, n) == IF n = 0 THEN <<>> ELSE ps[n].value \o ReverseTail(ps, n - 1)

\* the sum of the lengths of the first k Bytes values
RECURSIVE LenUpTo(_, _)
LenUpTo(ps, k) == IF k = 0 THEN 0 ELSE Len(ps[k].value) + LenUpTo(ps, k - 1)

\* C13: the encoded output is the bytes of the bit stream followed by the
\* Bytes values in reverse encounter order, and each decoded Bytes value is
\* the slice of its length that ends at the tail cursor, which starts at the
\* input length and moves left by that length.
C13_TailLayout ==
    /\ pc \in {"encoded", "decoded"} /\ encoded.err = "none" =>
          LET ps == BytesInFields(record_fields, host_value, 1) IN
          encoded.bytes = encoded.stream \o ReverseTail(ps, Len(ps))
    /\ pc \in {"decoded", "decoded_input"} /\ decoded.err = "none" =>
          LET ds == BytesInFields(record_fields, decoded.value, 1) IN
          /\ \A k \in 1..Len(ds) :
                /\ LenUpTo(ds, k) <= Len(wire)
                /\ ds[k].value = SubSeq(wire, Len(wire) - LenUpTo(ds, k) + 1,
                                        Len(wire) - LenUpTo(ds, k - 1))
          /\ decoded.buffers_end_index = Len(wire) - LenUpTo(ds, Len(ds))

\* C13 witness: two Bytes values of lengths 1 and 2 with a Boolean between
\* them, encoded as the bit-stream byte, the second value, the first value,
\* and decoded back.
C13_Witness ==
    /\ pc = "decoded" /\ decoded.err = "none"
    /\ Len(record_fields) = 3
    /\ record_fields[1].kind = "Bytes" /\ record_fields[3].kind = "Bytes"
    /\ host_value = <<BytesOfLen(1), TRUE, BytesOfLen(2)>>
    /\ encoded.bytes = encoded.stream \o BytesOfLen(2) \o BytesOfLen(1)
    /\ Len(encoded.stream) = 1
    /\ decoded.value = host_value
    /\ decoded.buffers_end_index = 1

BytesFirst ==
    /\ record_fields # <<>>
    /\ record_fields[1].kind = "Bytes" /\ ~record_fields[1].nullable

\* the length prefix of the first field, a Bytes field, in the input
FirstPrefix == NatOfBits(BitsAt(wire, 0, record_fields[1].bits))

\* C14: on every input that decodes, a decoded Bytes value has the length
\* read from its length prefix, and that length is at most the field's
\* declared maxLength.
C14_LengthPrefixBound ==
    pc \in {"decoded", "decoded_input"} /\ decoded.err = "none" =>
        LET ds == BytesInFields(record_fields, decoded.value, 1) IN
        /\ BytesFirst => Len(decoded.value[1]) = FirstPrefix
        /\ \A k \in 1..Len(ds) :
              ds[k].field.max_length # <<>> =>
                  Len(ds[k].value) <= NatOfBits(ds[k].field.max_length[1])

\* C14, the failing case: a field of maxLength 2 has a 2-bit prefix; the
\* three bytes 255 decode to a Bytes value of length 3.
C14_Witness ==
    /\ pc = "decoded_input" /\ decoded.err = "none"
    /\ BytesFirst /\ Len(record_fields) = 1
    /\ record_fields[1].max_length = <<BitsOfNat(2)>>
    /\ wire = <<255, 255, 255>>
    /\ FirstPrefix = 3
    /\ decoded.value = << <<255, 255, 255>> >>

\* C15: when the length prefix read for a Bytes field is larger than the
\* number of bytes before the tail cursor, decode returns NotEnoughBytes.
\* Stated for the first field, whose cursor is the input length.
C15_NotEnoughBytes ==
    pc \in {"decoded", "decoded_truncated", "decoded_input"} /\ BytesFirst
        /\ 8 * Len(wire) >= record_fields[1].bits
        /\ FirstPrefix > Len(wire)
    => decoded.err = "NotEnoughBytes"

\* C15, the failing case: the one byte 255 for a field with a 2-bit prefix,
\* length 3 with 1 byte before the cursor, panics in a build with overflow
\* checks.
C15_Witness ==
    /\ pc = "decoded_input" /\ overflow_checks
    /\ BytesFirst /\ record_fields[1].bits = 2
    /\ wire = <<255>> /\ FirstPrefix = 3
    /\ decoded.err = "Panic"

EnumFirst ==
    /\ record_fields # <<>>
    /\ record_fields[1].kind = "Enum" /\ ~record_fields[1].nullable

\* C16: the ordinal written for an enum variant is its 0-based position in
\* the schema's variants list, for every host enum that validate_enum_schema
\* accepts.
C16_EnumOrdinal ==
    pc = "encoded" /\ EnumFirst /\ encoded.err = "none" =>
        NatOfBits(BitsAt(encoded.stream, 0, record_fields[1].bits))
            = IndexOf(record_fields[1].schema, host_value[1])

\* C16, the failing case: the schema lists A, B, C and the host enum declares
\* B, A, C; the variant A, position 0 in the schema, is written as 1.
C16_Witness ==
    /\ pc = "encoded" /\ EnumFirst /\ encoded.err = "none"
    /\ record_fields[1].schema = <<"A", "B", "C">>
    /\ record_fields[1].host = <<"B", "A", "C">>
    /\ host_value = <<"A", FALSE>>
    /\ encoded.bytes = <<1>>

\* the ordinal of the first field, an Enum field, in the input
FirstOrdinal == NatOfBits(BitsAt(wire, 0, record_fields[1].bits))

\* C17: for an Enum field with V variants, an ordinal o >= V read in the
\* field's width makes decode return OutOfBounds, and a decode that succeeds
\* converted an ordinal in 0..V-1 to the host variant of that ordinal.
C17_EnumOutOfBounds ==
    pc \in {"decoded", "decoded_input"} /\ EnumFirst
        /\ 8 * Len(wire) >= record_fields[1].bits =>
        /\ FirstOrdinal >= Len(record_fields[1].schema) => decoded.err = "OutOfBounds"
        /\ decoded.err = "none" =>
              /\ FirstOrdinal < Len(record_fields[1].schema)
              /\ decoded.value[1] = record_fields[1].host[FirstOrdinal + 1]

\* C17 witness: the ordinal 3 of an enum with 3 variants, read in 2 bits, is
\* rejected with OutOfBounds.
C17_Witness ==
    /\ pc = "decoded_input" /\ EnumFirst
    /\ Len(record_fields[1].schema) = 3 /\ record_fields[1].bits = 2
    /\ wire = <<255>> /\ FirstOrdinal = 3
    /\ decoded.err = "OutOfBounds"

Decoded == pc \in {"decoded", "decoded_truncated", "decoded_input"}

\* C18: in a decode of a record with no Bytes field in its tree, the bytes
\* the reader has loaded, those below byte_idx, end at the byte that holds
\* the last bit read, and no refill loaded a byte at an index >= the input
\* length.
C18_NoLoadPastInput ==
    Decoded /\ ~has_bytes_field(record_fields) =>
        /\ decoded.reader.byte_idx <= (decoded.reader.bit_position + 7) \div 8
        /\ decoded.reader.byte_idx <= Len(wire)

\* C18, the failing case: a decode of a one-byte encoding of a record of one
\* Int field succeeds after a refill that loaded the bytes at indices 0..7.
C18_Witness ==
    /\ pc = "decoded" /\ decoded.err = "none"
    /\ ~has_bytes_field(record_fields)
    /\ Len(record_fields) = 1 /\ Bounded(record_fields[1])
    /\ Len(wire) = 1
    /\ decoded.reader.bit_position = 3
    /\ decoded.reader.byte_idx = 8

\* field i of the record is an Array field
ArrayAt(i) == record_fields[i].kind = "Array"

\* the length-prefix width of the Array field i: bits() minus the nullable bit
PrefixWidth(i) == record_fields[i].bits - B2N(record_fields[i].nullable)

\* C19 as stated: the length-prefix width of an Array field is
\* ceil(log2(max_length + 1)) when the schema declares maxLength and 5 when it
\* does not.
C19_ArrayPrefixWidthStated ==
    pc \in {"loaded", "encoded"} =>
        \A i \in 1..Len(record_fields) : ArrayAt(i) =>
            PrefixWidth(i) = IF schema_json[i].maxLength # <<>>
                             THEN CeilLog2Succ(schema_json[i].maxLength[1])
                             ELSE 5

\* C19 amended: the length-prefix width of an Array field is
\* ceil(log2(max_length + 1)) when the schema declares maxLength and 32 when
\* it does not, max_length then being u32::MAX.
C19_ArrayPrefixWidth ==
    pc \in {"loaded", "encoded"} =>
        \A i \in 1..Len(record_fields) : ArrayAt(i) =>
            PrefixWidth(i) = IF schema_json[i].maxLength # <<>>
                             THEN CeilLog2Succ(schema_json[i].maxLength[1])
                             ELSE 32

\* C19 witness: an array without maxLength holding two Booleans, followed by
\* a Boolean, is encoded in 32 + 2 + 1 bits, 5 bytes.
C19_Witness ==
    /\ pc = "encoded" /\ encoded.err = "none"
    /\ Len(record_fields) = 2 /\ ArrayAt(1)
    /\ schema_json[1].maxLength = <<>>
    /\ PrefixWidth(1) = 32
    /\ host_value = << <<TRUE, TRUE>>, TRUE >>
    /\ encoded.bytes = <<2, 0, 0, 0, 7>>

-----------------------------------------------------------------------------
(* The loader and the generator on records of many fields: a schema whose     *)
(* one field is a record of k fields of one kind.                             *)

MaxChildren == 8

ChildSpecs ==
    {ArraySpec(<<>>, BoolSpec(FALSE), FALSE), BytesSpec(<<>>, FALSE), BoolSpec(FALSE),
     IntSpec(<<0>>, <<100>>, FALSE, "u8")}

\* the numbers of variants of the enum schemas loaded
EnumSizes == {0, 1, 2, 3, 4, 7, 8, 255, 256}

LoaderCases ==
    {<< RecordSpec([i \in 1..k |-> c], n) >> :
        k \in 0..MaxChildren, c \in ChildSpecs, n \in BOOLEAN}

\* a field of an enum with v variants, the variants named 1..v
EnumCases == {<< EnumSpec([i \in 1..v |-> i], n) >> : v \in EnumSizes, n \in BOOLEAN}

InitLoader ==
    /\ overflow_checks \in BOOLEAN
    /\ pc = "schema"
    /\ (schema_json \in LoaderCases \/ schema_json \in EnumCases)
    /\ record_fields = <<>> /\ host_value = <<>>
    /\ encoded = NoEncoded /\ wire = <<>> /\ decoded = NoDecoded
    /\ writer = with_capacity(0) /\ out = NoOut /\ reader = NoReader
    /\ last = NoCall /\ before = NoCall /\ log = <<>> /\ bitlog = <<>>
    /\ struct_names = <<>> /\ schema_names = <<>> /\ accessed = <<>>
    /\ files = <<>> /\ stack = <<>> /\ returned = "none"

\* the fields of a field tree: the fields, the fields of their records and the
\* items of their arrays
RECURSIVE TreeFields(_)
TreeFields(fields) ==
    UNION {{fields[i]} \cup
           (CASE fields[i].kind = "Record" -> TreeFields(fields[i].fields)
              [] fields[i].kind = "Array" -> TreeFields(<<fields[i].items_field>>)
              [] OTHER -> {}) : i \in 1..Len(fields)}

\* generate_encode_field on every field of the tree: the debug assertion on
\* bits(), when the macro is built with debug assertions, then `bits as u8`;
\* log holds the narrowed widths of the record's fields
Generate ==
    /\ pc = "loaded"
    /\ \E debug_assertions \in BOOLEAN :
          IF debug_assertions /\ \E f \in TreeFields(record_fields) : f.bits > 255
          THEN pc' = "panicked" /\ UNCHANGED log
          ELSE /\ pc' = "generated"
               /\ log' = [i \in 1..Len(record_fields) |-> bits_u8(record_fields[i])]
    /\ UNCHANGED <<overflow_checks, namevars, loadvars, writer, out, reader, last, before, bitlog, codecvars>>

NextLoader == Load \/ Generate

SpecLoader == InitLoader /\ [][NextLoader]_vars

\* C20: every field of a field tree the loader builds, Record fields
\* included, has a width of at most 255, so the generator's assertion holds
\* and the width narrowed to 8 bits is the width.
C20_WidthFitsU8 ==
    /\ pc \in {"loaded", "generated", "panicked"} =>
          \A f \in TreeFields(record_fields) : f.bits <= 255
    /\ pc # "panicked"
    /\ pc = "generated" =>
          \A i \in 1..Len(record_fields) : log[i] = record_fields[i].bits

\* C20, the failing case: a record of 8 arrays without maxLength, 32 bits
\* each, has width 256, which the generator narrows to 0.
C20_Witness ==
    /\ pc = "generated"
    /\ Len(record_fields) = 1 /\ record_fields[1].kind = "Record"
    /\ ~record_fields[1].nullable
    /\ Len(record_fields[1].fields) = 8
    /\ \A i \in 1..8 : record_fields[1].fields[i].bits = 32
    /\ record_fields[1].bits = 256
    /\ log = <<0>>

-----------------------------------------------------------------------------
(* Claims about decoding bounded Int fields, enum widths and the width tag.   *)

BoundedFirst ==
    /\ record_fields # <<>>
    /\ Bounded(record_fields[1]) /\ ~record_fields[1].nullable
    /\ record_fields[1].bits <= 30

\* the payload of the first field, a bounded Int field, in the input
FirstPayload == NatOfBits(BitsAt(wire, 0, record_fields[1].bits))

\* payload + min lies in [min, max], decided without leaving 32 bits
PayloadInRange(field, payload) ==
    SubOverflows(field.max[1], field.min[1]) \/ payload <= field.max[1] - field.min[1]

\* C21: for a bounded Int field and a payload readable in its width, decode
\* returns payload + min when that lies in [min, max] and OutOfBounds
\* otherwise; it does not panic and returns no wrapped value.
C21_DecodeBoundedInt ==
    Decoded /\ BoundedFirst /\ 8 * Len(wire) >= record_fields[1].bits =>
        IF PayloadInRange(record_fields[1], FirstPayload)
        THEN /\ decoded.err \notin {"Panic", "OutOfBounds"}
             /\ decoded.err = "none" =>
                   decoded.value[1] = u64_of_i32(FirstPayload + record_fields[1].min[1])
        ELSE decoded.err = "OutOfBounds"

\* C21, the failing case: min = 2^31 - 2, max = 2^31 - 1, a 2-bit payload;
\* the payload 2 makes payload + min overflow and decode panics in a build
\* with overflow checks.
C21_Witness ==
    /\ pc = "decoded_input" /\ overflow_checks
    /\ BoundedFirst /\ Len(record_fields) = 1
    /\ record_fields[1].min = <<MaxI32 - 1>> /\ record_fields[1].max = <<MaxI32>>
    /\ record_fields[1].bits = 2
    /\ wire = <<170>> /\ FirstPayload = 2
    /\ decoded.err = "Panic"

\* ceil(log2(n + 1)) for 0 <= n <= 256
CeilLog2SuccNat(n) == CHOOSE k \in 0..9 : 2 ^ k >= n + 1 /\ \A j \in 0..(k - 1) : 2 ^ j < n + 1

\* C22: the Enum field built from an enum schema with V variants,
\* 0 <= V <= 256, has payload width ceil(log2(V + 1)), every ordinal 0..V-1
\* can be written in that width, and the field's variant count is V.
C22_EnumWidth ==
    pc \in {"loaded", "generated", "panicked"} =>
        \A i \in 1..Len(record_fields) : record_fields[i].kind = "Enum" =>
            LET V == Len(schema_json[i].variants)
                w == record_fields[i].bits - B2N(record_fields[i].nullable)
            IN  /\ w = CeilLog2SuccNat(V)
                /\ record_fields[i].variants = V
                /\ \A o \in 0..(V - 1) : ~ValueTooLarge(BitsOfNat(o), w)

\* C22, the failing case: an enum schema with 256 variants gives a field with
\* variant count 0 and width 0.
C22_Witness ==
    /\ pc = "loaded" /\ Len(record_fields) = 1
    /\ record_fields[1].kind = "Enum" /\ ~record_fields[1].nullable
    /\ Len(schema_json[1].variants) = 256
    /\ record_fields[1].variants = 0
    /\ record_fields[1].bits = 0
    /\ ValueTooLarge(BitsOfNat(1), 0)

UnboundedIntFirst ==
    /\ record_fields # <<>>
    /\ record_fields[1].kind = "Int" /\ ~Bounded(record_fields[1])

\* C23: for an unbounded Int field, nullable or not, encode succeeds only for
\* values whose width w = 64 - leading_zeros(v as u64) is in 0..31, and a
\* value with w >= 32 is rejected with OutOfBounds and no bytes.
C23_WidthTagLimit ==
    pc = "encoded" /\ UnboundedIntFirst /\ Present(1) =>
        /\ encoded.err = "none" => CeilLog2Succ(Payload(1)) <= 31
        /\ CeilLog2Succ(Payload(1)) >= 32 =>
               encoded.err = "OutOfBounds" /\ encoded.bytes = <<>>

\* C23, the failing case: a nullable unbounded Int holding 2^40, width 41, is
\* accepted: the width is written in the 6 bits of bits().
C23_Witness ==
    /\ pc = "encoded" /\ UnboundedIntFirst
    /\ record_fields[1].nullable /\ record_fields[1].bits = 6
    /\ host_value = << <<{40}>> >>
    /\ encoded.err = "none"
    /\ Len(encoded.bytes) = 6

-----------------------------------------------------------------------------
(* Field names (utils.rs).  A name is the sequence of its characters; the     *)
(* derive matches the struct's fields with the schema's by name and the       *)
(* generated code accesses the struct field named after the schema field.     *)

is_uppercase(c) == c \in {"A", "B"}
to_ascii_uppercase(c) == CASE c = "a" -> "A" [] c = "b" -> "B" [] OTHER -> c
to_ascii_lowercase(c) == CASE c = "A" -> "a" [] c = "B" -> "b" [] OTHER -> c

RECURSIVE snake_to_camel_from(_, _, _, _)
snake_to_camel_from(s, i, result, next_char_uppercase) ==
    IF i > Len(s) THEN result
    ELSE IF s[i] = "_" THEN snake_to_camel_from(s, i + 1, result, TRUE)
    ELSE IF next_char_uppercase
    THEN snake_to_camel_from(s, i + 1, Append(result, to_ascii_uppercase(s[i])), FALSE)
    ELSE snake_to_camel_from(s, i + 1, Append(result, s[i]), FALSE)

snake_to_camel_case(s) == snake_to_camel_from(s, 1, <<>>, FALSE)

RECURSIVE camel_to_snake_from(_, _, _)
camel_to_snake_from(s, i, result) ==
    IF i > Len(s) THEN result
    ELSE IF is_uppercase(s[i])
    THEN camel_to_snake_from(s, i + 1,
             Append(IF result # <<>> THEN Append(result, "_") ELSE result,
                    to_ascii_lowercase(s[i])))
    ELSE camel_to_snake_from(s, i + 1, Append(result, s[i]))

camel_to_snake_case(s) == camel_to_snake_from(s, 1, <<>>)

\* the names part of validate_record_schema: every schema field is the
\* camelCase of some struct field, and every struct field's camelCase is a
\* schema field
validate_record_schema(schema, struct) ==
    /\ \A i \in 1..Len(schema) :
          \E j \in 1..Len(struct) : snake_to_camel_case(struct[j]) = schema[i]
    /\ \A j \in 1..Len(struct) :
          \E i \in 1..Len(schema) : schema[i] = snake_to_camel_case(struct[j])

\* names of struct fields: a, b, _b, a_b, a__b, a_1, a1, a_
HostNames ==
    {<<"a">>, <<"b">>, <<"_", "b">>, <<"a", "_", "b">>, <<"a", "_", "_", "b">>,
     <<"a", "_", "1">>, <<"a", "1">>, <<"a", "_">>}

\* names of schema fields: a, b, B, aB, a1, AB
SchemaNames ==
    {<<"a">>, <<"b">>, <<"B">>, <<"a", "B">>, <<"a", "1">>, <<"A", "B">>}

\* the sequences of one or two different names of a set
NameLists(names) ==
    {<<n>> : n \in names} \cup {p \in names \X names : p[1] # p[2]}

InitNames ==
    /\ overflow_checks \in BOOLEAN
    /\ pc = "names"
    /\ struct_names \in NameLists(HostNames)
    /\ schema_names \in NameLists(SchemaNames)
    /\ accessed = <<>>
    /\ files = <<>> /\ stack = <<>> /\ returned = "none"
    /\ schema_json = <<>> /\ record_fields = <<>> /\ host_value = <<>>
    /\ encoded = NoEncoded /\ wire = <<>> /\ decoded = NoDecoded
    /\ writer = with_capacity(0) /\ out = NoOut /\ reader = NoReader
    /\ last = NoCall /\ before = NoCall /\ log = <<>> /\ bitlog = <<>>

Validate ==
    /\ pc = "names"
    /\ pc' = IF validate_record_schema(schema_names, struct_names)
             THEN "validated" ELSE "rejected"
    /\ UNCHANGED <<overflow_checks, loadvars, streamvars, codecvars, namevars>>

\* field_write_calls: the code generated for a schema field accesses
\* self.<camel_to_snake_case(name)>
GenerateAccess ==
    /\ pc = "validated"
    /\ accessed' = [i \in 1..Len(schema_names) |-> camel_to_snake_case(schema_names[i])]
    /\ pc' = "generated"
    /\ UNCHANGED <<overflow_checks, loadvars, streamvars, codecvars, struct_names, schema_names>>

NextNames == Validate \/ GenerateAccess

SpecNames == InitNames /\ [][NextNames]_vars

\* C24: on the names validation accepts, snake_to_camel_case and
\* camel_to_snake_case are inverse to each other, and the struct field the
\* generated code accesses for a schema field is the struct field that
\* validation matched to it.
C24_NameMapping ==
    pc \in {"validated", "generated"} =>
        /\ \A i \in 1..Len(schema_names) :
              snake_to_camel_case(camel_to_snake_case(schema_names[i])) = schema_names[i]
        /\ \A j \in 1..Len(struct_names) :
              camel_to_snake_case(snake_to_camel_case(struct_names[j])) = struct_names[j]
        /\ pc = "generated" =>
              \A i \in 1..Len(schema_names) :
                 /\ \E j \in 1..Len(struct_names) : struct_names[j] = accessed[i]
                 /\ snake_to_camel_case(accessed[i]) = schema_names[i]

\* C24, the failing case: the struct fields _b and b match the schema fields
\* B and b, and the code generated for B accesses the field b.
C24_Witness ==
    /\ pc = "generated"
    /\ struct_names = << <<"_", "b">>, <<"b">> >>
    /\ schema_names = << <<"B">>, <<"b">> >>
    /\ accessed = << <<"b">>, <<"b">> >>

-----------------------------------------------------------------------------
(* Schema::parse_from_file (schema.rs).  A record schema names its            *)
(* dependencies; each is loaded by a recursive call before the fields are     *)
(* returned.  A call is a frame {file, next}: the file it loads and the index   *)
(* of the dependency it loads next.                                           *)

MaxFiles == 3

\* the calls the thread's stack has room for: more than there are files
StackLimit == MaxFiles + 2

Files == 1..MaxFiles

Dependencies == {<<>>} \cup {<<f>> : f \in Files} \cup (Files \X Files)

\* a file is absent, or holds a document of type "record" with dependencies,
\* of type "enum", or of another type
FileContents ==
    {[type |-> t, dependencies |-> <<>>] : t \in {"absent", "enum", "other"}}
        \cup {[type |-> "record", dependencies |-> d] : d \in Dependencies}

Frame(file) == [file |-> file, next |-> 1]

Top == stack[Len(stack)]

Caller == SubSeq(stack, 1, Len(stack) - 1)

InitFiles ==
    /\ overflow_checks = FALSE
    /\ pc = "parsing"
    /\ files \in [Files -> FileContents]
    /\ stack = <<Frame(1)>>
    /\ returned = "none"
    /\ struct_names = <<>> /\ schema_names = <<>> /\ accessed = <<>>
    /\ schema_json = <<>> /\ record_fields = <<>> /\ host_value = <<>>
    /\ encoded = NoEncoded /\ wire = <<>> /\ decoded = NoDecoded
    /\ writer = with_capacity(0) /\ out = NoOut /\ reader = NoReader
    /\ last = NoCall /\ before = NoCall /\ log = <<>> /\ bitlog = <<>>

\* the call on top returns Ok(schema): to its caller, which goes on to its
\* next dependency, or to the derive macro
ReturnOk ==
    IF Len(stack) = 1
    THEN /\ pc' = "returned" /\ returned' = "Schema" /\ stack' = <<>>
    ELSE /\ stack' = [Caller EXCEPT ![Len(stack) - 1].next = @ + 1]
         /\ UNCHANGED <<pc, returned>>

\* the call on top returns Err: the caller's expect panics, the derive macro
\* gets the Err
ReturnErr ==
    IF Len(stack) = 1
    THEN /\ pc' = "returned" /\ returned' = "Err" /\ stack' = <<>>
    ELSE /\ pc' = "panicked" /\ returned' = "panic" /\ stack' = <<>>

\* read_to_string(..).expect(..) on a file that is not there
ReadFails ==
    /\ pc = "parsing"
    /\ files[Top.file].type = "absent"
    /\ pc' = "panicked" /\ returned' = "panic" /\ stack' = <<>>
    /\ UNCHANGED <<overflow_checks, files, streamvars, codecvars, namevars>>

ParseEnum ==
    /\ pc = "parsing"
    /\ files[Top.file].type = "enum"
    /\ ReturnOk
    /\ UNCHANGED <<overflow_checks, files, streamvars, codecvars, namevars>>

ParseUnsupported ==
    /\ pc = "parsing"
    /\ files[Top.file].type = "other"
    /\ ReturnErr
    /\ UNCHANGED <<overflow_checks, files, streamvars, codecvars, namevars>>

\* the recursive call for the next dependency of a record
ParseDependency ==
    /\ pc = "parsing"
    /\ files[Top.file].type = "record"
    /\ Top.next <= Len(files[Top.file].dependencies)
    /\ Len(stack) < StackLimit
    /\ stack' = Append(stack, Frame(files[Top.file].dependencies[Top.next]))
    /\ UNCHANGED <<overflow_checks, pc, returned, files, streamvars, codecvars, namevars>>

\* the recursive call when the stack has no room left: the process is killed
StackOverflow ==
    /\ pc = "parsing"
    /\ files[Top.file].type = "record"
    /\ Top.next <= Len(files[Top.file].dependencies)
    /\ Len(stack) = StackLimit
    /\ pc' = "overflowed"
    /\ UNCHANGED <<overflow_checks, returned, stack, files, streamvars, codecvars, namevars>>

\* all dependencies of a record are loaded: its fields are returned
ParseRecord ==
    /\ pc = "parsing"
    /\ files[Top.file].type = "record"
    /\ Top.next > Len(files[Top.file].dependencies)
    /\ ReturnOk
    /\ UNCHANGED <<overflow_checks, files, streamvars, codecvars, namevars>>

NextFiles ==
    \/ ReadFails \/ ParseEnum \/ ParseUnsupported
    \/ ParseDependency \/ StackOverflow \/ ParseRecord

SpecFiles == InitFiles /\ [][NextFiles]_vars

\* the dependencies a record file names
DirectDependencies(f) ==
    {files[f].dependencies[i] : i \in 1..Len(files[f].dependencies)}

\* the files reached from the files S along at most n further references
RECURSIVE Reach(_, _)
Reach(S, n) ==
    IF n = 0 THEN S
    ELSE Reach(S \cup UNION {DirectDependencies(f) : f \in S}, n - 1)

\* the dependency references the load of file 1 follows contain a cycle
Cyclic ==
    \E f \in Reach({1}, MaxFiles) : f \in Reach(DirectDependencies(f), MaxFiles)

\* C25: loading a schema ends with a Schema or a failure returned, never by
\* running out of stack, and when the dependency references contain a cycle
\* what is returned is a failure.
C25_LoadingTerminates ==
    /\ pc # "overflowed"
    /\ pc = "returned" => returned \in {"Schema", "Err"}
    /\ (pc \in {"returned", "panicked"} /\ Cyclic) => returned \in {"Err", "panic"}

\* C25, the failing case: a record schema that names itself as a dependency is
\* loaded again and again until the stack is full.
C25_Witness ==
    /\ pc = "overflowed"
    /\ files[1] = [type |-> "record", dependencies |-> <<1>>]
    /\ \A i \in 1..Len(stack) : stack[i].file = 1

-----------------------------------------------------------------------------
(* The reader's and the writer's bookkeeping.                                 *)

\* the buffer of reader r holds, at positions below filled, the input bits
\* from bit_position on
HoldsUnconsumed(r) ==
    \A k \in 0..(r.filled - 1) :
        r.bit_position + k < r.bits =>
            (k \in r.buffer <=> BitOf(r.bytes, r.bit_position + k) = 1)

\* C26: a successful read(count) advances bit_position by count and a failed
\* one by 0; in every state 8 * byte_idx = bit_position + filled and
\* filled <= 127; the buffer holds every input bit loaded and not yet
\* consumed; a refill happens only in a read with filled < count <= 64.
C26_ReaderPosition ==
    pc \in {"reading", "panicked"} =>
        /\ last.op = "read" =>
              reader.bit_position
                  = before.bit_position + (IF last.res = "Ok" THEN last.count ELSE 0)
        /\ 8 * reader.byte_idx = reader.bit_position + reader.filled
        /\ reader.filled <= 127
        /\ HoldsUnconsumed(reader)
        /\ last.op = "read" /\ reader.byte_idx # before.byte_idx =>
              before.filled < last.count /\ last.count <= 64

\* C26, the failing case: read(65) at the start of nine bytes, in a build
\* without overflow checks, refills once and leaves filled = 64 - 65 = 255.
C26_Witness ==
    /\ pc = "reading" /\ ~overflow_checks
    /\ last.op = "read" /\ last.count = 65 /\ last.res = "Ok"
    /\ Len(before.bytes) = 9 /\ before.bit_position = 0
    /\ reader.bit_position = 65 /\ reader.byte_idx = 8 /\ reader.filled = 255

\* the sum of the widths of the writes of a log
RECURSIVE SumWidths(_)
SumWidths(l) == IF l = <<>> THEN 0 ELSE l[1][2] + SumWidths(Tail(l))

\* C27: in every state reached by write calls, successful or failed,
\* 0 <= buffer_filled <= 64, bytes_written is a multiple of 8,
\* 8 * bytes_written + buffer_filled is the sum of the widths of the successful
\* writes, and the staging buffer has no bit set at a position >= buffer_filled.
C27_WriterAccounting ==
    /\ 0 <= writer.buffer_filled /\ writer.buffer_filled <= 64
    /\ writer.bytes_written % 8 = 0
    /\ 8 * writer.bytes_written + writer.buffer_filled = SumWidths(log)
    /\ \A i \in writer.buffer : i < writer.buffer_filled

\* C27, its case: two successful writes, the second of which stored 8 bytes,
\* and then a rejected one.
C27_Witness ==
    /\ pc = "writing"
    /\ last.op = "write" /\ last.res = "ValueTooLarge"
    /\ Len(log) = 2
    /\ writer.bytes_written = 8 /\ writer.buffer_filled = 33
    /\ writer.buffer # {}

\* C28: every 8-byte store of the writer lies inside the capacity reserved
\* for the output vector: the bytes a write stored, and the 8 bytes
\* into_bytes stores at offset bytes_written.
C28_StoreWithinCapacity ==
    /\ writer.bytes_written <= writer.capacity
    /\ out.overrun = 0

\* C28, the failing case: after one write of 1 bit to a writer of capacity 0,
\* into_bytes reserves 1 byte and stores 8.
C28_Witness ==
    /\ last.op = "into_bytes"
    /\ before.capacity = 0 /\ before.bytes_written = 0 /\ before.buffer_filled = 1
    /\ Len(out.bytes) = 1
    /\ out.overrun = 7

-----------------------------------------------------------------------------
(* Arrays longer than maxLength.                                              *)

\* A < B for words A, B
WordLess(A, B) == \E i \in B \ A : \A j \in A \ B : j < i

\* C29: encode of a record whose Array field holds more than maxLength items
\* returns an error, also when the length still fits the length prefix.
C29_ArrayMaxLength ==
    pc = "encoded" =>
        \A i \in 1..Len(record_fields) :
            ArrayAt(i) /\ Present(i)
                /\ WordLess(record_fields[i].max_length, BitsOfNat(Len(Payload(i)))) =>
                    encoded.err # "none"

\* C29, the failing case: maxLength = 2 gives a 2-bit length prefix, and an
\* array of 3 items is encoded: the length 3 and the 3 items in one byte.
C29_Witness ==
    /\ pc = "encoded" /\ encoded.err = "none"
    /\ Len(record_fields) = 1 /\ ArrayAt(1)
    /\ record_fields[1].max_length = BitsOfNat(2) /\ PrefixWidth(1) = 2
    /\ host_value = << <<TRUE, TRUE, TRUE>> >>
    /\ encoded.bytes = <<31>>

-----------------------------------------------------------------------------
(* Writes of width 0.                                                         *)

\* C30: write(0, 0) returns Ok and leaves the output bytes, the staging
\* buffer, the fill counter and bytes_written as they were, in every writer
\* state, buffer_filled = 64 included.
C30_ZeroWidthWrite ==
    last.op = "write" /\ last.count = 0 /\ last.value = {} =>
        /\ last.res = "Ok"
        /\ writer.bytes = before.bytes
        /\ writer.buffer = before.buffer
        /\ writer.buffer_filled = before.buffer_filled
        /\ writer.bytes_written = before.bytes_written

\* C30, the failing case: after one write of 64 bits the staging buffer is
\* full and nothing is stored yet; write(0, 0) then panics in a build with
\* overflow checks.
C30_Witness ==
    /\ pc = "panicked" /\ overflow_checks
    /\ last.op = "write" /\ last.count = 0 /\ last.value = {}
    /\ Len(log) = 1 /\ log[1][2] = 64
    /\ before.buffer_filled = 64 /\ before.bytes_written = 0
    /\ last.res = "Panic"

====
